---- MODULE Spec2Model ----
(***************************************************************************)
(* Model of the device protocol layer of UbuntuROGAura                     *)
(* (src/src/native_rgb.py, src/src/native_backend.py).                     *)
(*                                                                         *)
(* Sessions are RogAuraUSB objects, each driven through one API layer:     *)
(*   "usb"     - RogAuraUSB methods called directly,                       *)
(*   "native"  - through the RogAuraNative wrapper (its connected flag),   *)
(*   "backend" - RogAuraBackendNative._execute_with_connection, which      *)
(*               makes a fresh RogAuraNative per call,                     *)
(*   "aura"    - the long-lived RogAuraNative (self.aura) of the backend   *)
(*               object whose per-call sessions are the other session,     *)
(*               driven by RogAuraBackendNative.connect / test_connection  *)
(*               / disconnect.                                             *)
(* Every USB library call is one step, so the calls of two sessions        *)
(* interleave at the granularity of individual USB calls.                  *)
(*                                                                         *)
(* The host USB stack is modelled by three variables: which product ids    *)
(* are attached, whether the kernel driver is bound to interface 0, and    *)
(* which sessions hold the interface claim.  Every USB call may fail.      *)
(***************************************************************************)
EXTENDS Integers, Sequences, FiniteSets, TLC

\* ---------------------------------------------------------------- bounds
MaxCalls == 4          \* API calls made in one behaviour by a lone session
MaxDuoCalls == 2       \* API calls made in one behaviour by two live sessions
MaxColors == 5         \* longest colour list passed to a multi-zone method

Sessions == {"A", "B"}
Layers == {"usb", "native", "backend"}    \* and "off": the session makes no call
OwnLayers == {"aura"}                     \* self.aura of the backend in session A

\* ------------------------------------------------------------- constants
ASUS_VENDOR_ID == 2821                                   \* 0x0b05
SUPPORTED_PRODUCT_IDS == <<6228, 6249, 6246, 6582>>      \* 0x1854 0x1869 0x1866 0x19b6
MESSAGE_LENGTH == 17
NoDevice == 0                                            \* Python None

\* The packet templates as the class body creates them (lines 46-51).
Zeros(n) == [i \in 1..n |-> 0]

MESSAGE_SET == <<93, 181>> \o Zeros(15)                     \* 0x5d 0xb5
MESSAGE_APPLY == <<93, 180>> \o Zeros(15)                   \* 0x5d 0xb4
MESSAGE_BRIGHTNESS == <<90, 186, 197, 196>> \o Zeros(13)    \* 0x5a 0xba 0xc5 0xc4
MESSAGE_INITIALIZE ==
    <<90, 65, 83, 85, 83, 32, 84, 101, 99, 104, 46, 73, 110, 99, 46, 0, 0>>

\* The sets of attached ASUS product ids a behaviour may start with.
AttachedChoices == { {}, {4660}, {6246, 6228} }    \* 0x1234 is not on the allow-list

VARIABLES
    attached,       \* env: product ids of the attached ASUS devices
    kernelBound,    \* env: a kernel driver is bound to interface 0
    claimed,        \* env: sessions whose handle holds the interface claim
    layer,          \* layer[s]: the API layer session s is driven through
    pc,             \* pc[s]: position of s inside the call in progress
    device,         \* RogAuraUSB.device (product id, or NoDevice)
    interface,      \* RogAuraUSB.interface is set
    kernel_driver_was_active, \* "absent" (attribute not set) | "yes" | "no"
    connected,      \* RogAuraNative.connected
    messages,       \* the list handed to _send_messages by the current call
    set_and_apply,  \* and its set_and_apply argument
    ncalls,         \* API calls begun so far, over all sessions
    call,           \* call[s]: the API call in progress / last completed
    ret,            \* its return value: "pending" | "true" | "false" | "void"
    usbLog,         \* USB library calls made by that API call, in order
    sentLog,        \* packets that call passed to ctrl_transfer, in order
    failedAt,       \* position in sentLog of its first failed transfer, or 0
    xferLog,        \* what each of those ctrl_transfer calls reported
    result,         \* channels / protocol byte of the Color / Speed the call built
    connStage,      \* how the last connect() of s ended
    didDetach,      \* the last connect() of s detached the kernel driver
    detachFailed,   \* the last connect() of s saw detach_kernel_driver fail
    initBound,      \* kernelBound in the initial state
    fault,          \* some USB call of connect() or disconnect() has failed
                    \* although the host could have served it
    templates       \* the class attributes MESSAGE_SET, MESSAGE_APPLY,
                    \* MESSAGE_BRIGHTNESS, MESSAGE_INITIALIZE: arrays that
                    \* all RogAuraUSB objects share

envVars == <<attached, kernelBound, claimed>>
usbVars == <<device, interface, kernel_driver_was_active>>
obsVars == <<connStage, didDetach, detachFailed>>
sendVars == <<messages, set_and_apply, sentLog, failedAt, xferLog>>
vars == <<attached, kernelBound, claimed, layer, pc, device, interface,
          kernel_driver_was_active, connected, messages, set_and_apply,
          ncalls, call, ret, usbLog, sentLog, failedAt, xferLog, result,
          connStage, didDetach, detachFailed, initBound, fault, templates>>

\* An API call and its arguments.
In(op, cols, speed, level, name, dflt) ==
    [op |-> op, cols |-> cols, speed |-> speed, level |-> level,
     name |-> name, dflt |-> dflt]
Call0(op) == In(op, <<>>, 0, 0, "", FALSE)

\* The sessions are interchangeable: A is the one on the lower layer.
LayerRank(l) == CASE l = "usb" -> 1 [] l = "native" -> 2 [] l = "backend" -> 3
                  [] OTHER -> 4

\* Both sessions are live; the call budget of the behaviour.
Duo == \A s \in Sessions : layer[s] # "off"
Budget == IF Duo THEN MaxDuoCalls ELSE MaxCalls

\* ------------------------------------------------------------------ Init
Init ==
    /\ attached \in AttachedChoices
    /\ kernelBound \in BOOLEAN
    /\ claimed = {}
    /\ layer \in [Sessions -> Layers \cup OwnLayers \cup {"off"}]
    /\ layer["A"] \in Layers
    /\ layer["B"] \in OwnLayers => layer["A"] = "backend"
    /\ LayerRank(layer["A"]) <= LayerRank(layer["B"])
    /\ pc = [s \in Sessions |-> "idle"]
    /\ device = [s \in Sessions |-> NoDevice]
    /\ interface = [s \in Sessions |-> FALSE]
    /\ kernel_driver_was_active = [s \in Sessions |-> "absent"]
    /\ connected = [s \in Sessions |-> FALSE]
    /\ messages = [s \in Sessions |-> <<>>]
    /\ set_and_apply = [s \in Sessions |-> FALSE]
    /\ ncalls = 0
    /\ call = [s \in Sessions |-> Call0("none")]
    /\ sentLog = [s \in Sessions |-> <<>>]
    /\ failedAt = [s \in Sessions |-> 0]
    /\ xferLog = [s \in Sessions |-> <<>>]
    /\ result = [s \in Sessions |-> <<>>]
    /\ ret = [s \in Sessions |-> "void"]
    /\ usbLog = [s \in Sessions |-> <<>>]
    /\ connStage = [s \in Sessions |-> "none"]
    /\ didDetach = [s \in Sessions |-> FALSE]
    /\ detachFailed = [s \in Sessions |-> FALSE]
    /\ initBound = kernelBound
    /\ templates = [set |-> MESSAGE_SET, apply |-> MESSAGE_APPLY,
                    brightness |-> MESSAGE_BRIGHTNESS,
                    initialize |-> MESSAGE_INITIALIZE]
    /\ fault = FALSE

\* ------------------------------------------------------- host USB stack
\* usb.core.find over the allow-list, in list order: the first attached id.
RECURSIVE FindFrom(_)
FindFrom(i) ==
    IF i > Len(SUPPORTED_PRODUCT_IDS) THEN NoDevice
    ELSE IF SUPPORTED_PRODUCT_IDS[i] \in attached THEN SUPPORTED_PRODUCT_IDS[i]
    ELSE FindFrom(i + 1)

FindDevice == FindFrom(1)

\* Variant: a claim is granted whenever no kernel driver is bound, also
\* while another handle holds the interface.
ClaimAvailable_Shared(s) == ~kernelBound

\* usbfs grants a claim only when no kernel driver is bound and no other
\* handle holds the interface.
ClaimAvailable(s) == ~kernelBound /\ claimed \subseteq {s}

\* USBDEVFS_CONNECT binds the kernel driver only when no driver (kernel or
\* usbfs claim) is bound to the interface.
AttachAvailable == ~kernelBound /\ claimed = {}

Log(s, name) == usbLog' = [usbLog EXCEPT ![s] = Append(@, name)]

\* ------------------------------------------------------ Color and Speed
Min(a, b) == IF a < b THEN a ELSE b
Max(a, b) == IF a > b THEN a ELSE b

\* Color.__init__: each channel clamped to 0..255.
Color(red, green, blue) ==
    [red   |-> Max(0, Min(255, red)),
     green |-> Max(0, Min(255, green)),
     blue  |-> Max(0, Min(255, blue))]

HexDigits == {"0", "1", "2", "3", "4", "5", "6", "7", "8", "9",
              "a", "b", "c", "d", "e", "f", "A", "B", "C", "D", "E", "F"}

HexDigitValue(c) ==
    CASE c = "0" -> 0 [] c = "1" -> 1 [] c = "2" -> 2 [] c = "3" -> 3
      [] c = "4" -> 4 [] c = "5" -> 5 [] c = "6" -> 6 [] c = "7" -> 7
      [] c = "8" -> 8 [] c = "9" -> 9
      [] c \in {"a", "A"} -> 10 [] c \in {"b", "B"} -> 11
      [] c \in {"c", "C"} -> 12 [] c \in {"d", "D"} -> 13
      [] c \in {"e", "E"} -> 14 [] c \in {"f", "F"} -> 15

Whitespace == {" ", "\t", "\n"}

\* Python int(p, 16) of a two-character string p: surrounding whitespace
\* is stripped and one leading sign is accepted before the digits; "0x"
\* without digits and underscores next to no digit are errors.
PyInt16(p) ==
    LET a == p[1]
        b == p[2]
    IN  CASE a \in HexDigits /\ b \in HexDigits ->
                 [ok |-> TRUE, val |-> 16 * HexDigitValue(a) + HexDigitValue(b)]
          [] a = "+" /\ b \in HexDigits -> [ok |-> TRUE, val |-> HexDigitValue(b)]
          [] a = "-" /\ b \in HexDigits -> [ok |-> TRUE, val |-> 0 - HexDigitValue(b)]
          [] a \in Whitespace /\ b \in HexDigits ->
                 [ok |-> TRUE, val |-> HexDigitValue(b)]
          [] a \in HexDigits /\ b \in Whitespace ->
                 [ok |-> TRUE, val |-> HexDigitValue(a)]
          [] OTHER -> [ok |-> FALSE, val |-> 0]

RECURSIVE LStrip(_)
LStrip(t) == IF Len(t) > 0 /\ t[1] \in Whitespace THEN LStrip(Tail(t)) ELSE t

RECURSIVE RStrip(_)
RStrip(t) == IF Len(t) > 0 /\ t[Len(t)] \in Whitespace
             THEN RStrip(SubSeq(t, 1, Len(t) - 1)) ELSE t

\* Digits with single underscores between them.
DigitsOk(d) ==
    /\ Len(d) > 0
    /\ d[1] \in HexDigits /\ d[Len(d)] \in HexDigits
    /\ \A i \in 1..Len(d) : d[i] \in HexDigits \cup {"_"}
    /\ \A i \in 1..(Len(d) - 1) : ~(d[i] = "_" /\ d[i + 1] = "_")

\* Whether Python int(t, 16) accepts a string of any length: whitespace
\* stripped, an optional sign, an optional 0x prefix, then the digits.
PyIntHexOk(t) ==
    LET u == RStrip(LStrip(t))
        v == IF Len(u) > 0 /\ u[1] \in {"+", "-"} THEN Tail(u) ELSE u
        w == IF Len(v) >= 2 /\ v[1] = "0" /\ v[2] \in {"x", "X"}
             THEN SubSeq(v, 3, Len(v)) ELSE v
        x == IF Len(w) < Len(v) /\ Len(w) > 0 /\ w[1] = "_" THEN Tail(w) ELSE w
    IN  DigitsOk(x)

\* Variant: the leading '#' is kept as part of the string.
from_hex_NoStrip(hex_color) ==
    LET h == hex_color
    IN  IF Len(h) # 6 THEN [ok |-> FALSE, color |-> Color(0, 0, 0)]
        ELSE LET r == PyInt16(SubSeq(h, 1, 2))
                 g == PyInt16(SubSeq(h, 3, 4))
                 b == PyInt16(SubSeq(h, 5, 6))
             IN  IF r.ok /\ g.ok /\ b.ok
                 THEN [ok |-> TRUE, color |-> Color(r.val, g.val, b.val)]
                 ELSE [ok |-> FALSE, color |-> Color(0, 0, 0)]

\* Color.from_hex: strip one leading '#', require length 6, parse the
\* three two-character groups with int(.., 16).  ok = FALSE is ValueError.
from_hex(hex_color) ==
    LET h == IF Len(hex_color) > 0 /\ hex_color[1] = "#"
             THEN Tail(hex_color) ELSE hex_color
    IN  IF Len(h) # 6 THEN [ok |-> FALSE, color |-> Color(0, 0, 0)]
        ELSE LET r == PyInt16(SubSeq(h, 1, 2))
                 g == PyInt16(SubSeq(h, 3, 4))
                 b == PyInt16(SubSeq(h, 5, 6))
             IN  IF r.ok /\ g.ok /\ b.ok
                 THEN [ok |-> TRUE, color |-> Color(r.val, g.val, b.val)]
                 ELSE [ok |-> FALSE, color |-> Color(0, 0, 0)]

\* Speed(n): the enum has members 1, 2, 3; anything else is ValueError.
SpeedValid(n) == n \in {1, 2, 3}

\* Variant: the byte table in the opposite order.
byte_value_Reversed(speed) == <<245, 235, 225>>[speed]

\* Speed.byte_value
byte_value(speed) == <<225, 235, 245>>[speed]             \* 0xe1 0xeb 0xf5

COLORS ==
    [name \in {"red", "green", "blue", "yellow", "gold", "cyan", "magenta",
               "white", "black"} |->
        CASE name = "red" -> Color(255, 0, 0)
          [] name = "green" -> Color(0, 255, 0)
          [] name = "blue" -> Color(0, 0, 255)
          [] name = "yellow" -> Color(255, 255, 0)
          [] name = "gold" -> Color(255, 140, 0)
          [] name = "cyan" -> Color(0, 255, 255)
          [] name = "magenta" -> Color(255, 0, 255)
          [] name = "white" -> Color(255, 255, 255)
          [] name = "black" -> Color(0, 0, 0)]

\* msg[i] = v with Python's 0-based index i.
SetByte(msg, i, v) == [msg EXCEPT ![i + 1] = v]

\* RogAuraUSB._create_message
create_message == SetByte(SetByte(Zeros(MESSAGE_LENGTH), 0, 93), 1, 179)

SetRGB(msg, i, color) ==
    SetByte(SetByte(SetByte(msg, i, color.red), i + 1, color.green),
            i + 2, color.blue)

\* ----------------------------------------------- RogAuraUSB encoders
\* Each gives the message list the method hands to _send_messages.
brightness_messages(brightness) == <<SetByte(templates.brightness, 4, brightness)>>

initialize_messages == <<templates.initialize>>

\* Variant: msg is the class attribute itself, so msg[4] = brightness is
\* written into MESSAGE_BRIGHTNESS.
brightness_template_Aliased(brightness) == SetByte(templates.brightness, 4, brightness)

\* Lines 175-176: msg is a new array holding the bytes of
\* MESSAGE_BRIGHTNESS, so msg[4] = brightness leaves the class attribute
\* as it was.
brightness_template(brightness) == templates.brightness

single_static_messages(color) == <<SetRGB(create_message, 4, color)>>

\* Variant: the second colour is written one byte early, over the flag.
single_breathing_messages_Shifted(color1, color2, speed) ==
    <<SetRGB(SetByte(SetByte(SetRGB(SetByte(create_message, 3, 1), 4, color1),
                             7, byte_value(speed)), 9, 1), 9, color2)>>

single_breathing_messages(color1, color2, speed) ==
    <<SetRGB(SetByte(SetByte(SetRGB(SetByte(create_message, 3, 1), 4, color1),
                             7, byte_value(speed)), 9, 1), 10, color2)>>

single_colorcycle_messages(speed) ==
    <<SetByte(SetByte(SetByte(create_message, 3, 2), 4, 255), 7, byte_value(speed))>>

rainbow_cycle_messages(speed) ==
    <<SetByte(SetByte(SetByte(create_message, 3, 3), 4, 255), 7, byte_value(speed))>>

\* Variant: a short colour list is not padded.
FourColors_NoPad(colors) ==
    IF Len(colors) > 4 THEN SubSeq(colors, 1, 4) ELSE colors

\* Lines 211-214 and 229-232: truncate to 4 colours, or pad with white.
FourColors(colors) ==
    IF Len(colors) > 4 THEN SubSeq(colors, 1, 4)
    ELSE colors \o [i \in 1..(4 - Len(colors)) |-> Color(255, 255, 255)]

\* Variant: the static zones carry no speed byte.
multi_static_messages_NoSpeed(colors) ==
    LET four == FourColors(colors)
    IN  [i \in 1..Len(four) |-> SetRGB(SetByte(create_message, 2, i), 4, four[i])]

multi_static_messages(colors) ==
    LET four == FourColors(colors)
    IN  [i \in 1..Len(four) |->
            SetByte(SetRGB(SetByte(create_message, 2, i), 4, four[i]), 7, 235)]

multi_breathing_messages(colors, speed) ==
    LET four == FourColors(colors)
    IN  [i \in 1..Len(four) |->
            SetByte(SetRGB(SetByte(SetByte(create_message, 2, i), 3, 1),
                           4, four[i]), 7, byte_value(speed))]

\* Variant: the packet of each zone is followed by its own commit and apply.
rainbow_messages_TrailerPerZone ==
    LET zones == multi_static_messages(<<Color(255, 0, 0), Color(255, 255, 0),
                                         Color(0, 255, 255), Color(255, 0, 255)>>)
    IN  <<zones[1], MESSAGE_SET, MESSAGE_APPLY, zones[2], MESSAGE_SET, MESSAGE_APPLY,
          zones[3], MESSAGE_SET, MESSAGE_APPLY, zones[4]>>

rainbow_messages ==
    multi_static_messages(<<Color(255, 0, 0), Color(255, 255, 0),
                            Color(0, 255, 255), Color(255, 0, 255)>>)

\* ------------------------------------------------- method dispatch
\* What a command method does before _send_messages: valid = FALSE is a
\* return False without any send; otherwise the message list it built and
\* the set_and_apply flag it passes.
Invalid == [valid |-> FALSE, messages |-> <<>>, set_and_apply |-> FALSE]
Effect(msgs) == [valid |-> TRUE, messages |-> msgs, set_and_apply |-> TRUE]

\* Variant: the one-packet commands pass set_and_apply = True.
Plain_WithTrailer(msgs) == [valid |-> TRUE, messages |-> msgs, set_and_apply |-> TRUE]
Plain(msgs) == [valid |-> TRUE, messages |-> msgs, set_and_apply |-> FALSE]

\* Variant: the level is clamped into 0..3 instead of being rejected.
usb_set_brightness_Clamped(brightness) ==
    Plain(brightness_messages(Max(0, Min(3, brightness))))

\* RogAuraUSB.set_brightness
usb_set_brightness(brightness) ==
    IF 0 <= brightness /\ brightness <= 3
    THEN Plain(brightness_messages(brightness)) ELSE Invalid

\* RogAuraUSB.apply_color
usb_apply_color(color_name) ==
    IF color_name \in DOMAIN COLORS
    THEN Effect(single_static_messages(COLORS[color_name])) ELSE Invalid

\* RogAuraUSB.apply_custom_color
usb_apply_custom_color(hex_color) ==
    LET c == from_hex(hex_color)
    IN  IF c.ok THEN Effect(single_static_messages(c.color)) ELSE Invalid

\* The class attributes after the command method of call `in` has built
\* its messages: set_brightness is the one method that writes into an
\* array made from a template.
TemplatesAfter(in) ==
    IF in.op = "set_brightness" /\ usb_set_brightness(in.level).valid
    THEN [templates EXCEPT !.brightness = brightness_template(in.level)]
    ELSE templates

\* A Color object built by the caller from three integers.
ColorOf(t) == Color(t[1], t[2], t[3])

\* The RogAuraUSB command methods; in.cols are constructor arguments of
\* Color objects and in.speed is a Speed member.
UsbPlan(in) ==
    CASE in.op = "set_brightness" -> usb_set_brightness(in.level)
      [] in.op = "initialize_keyboard" -> Plain(initialize_messages)
      [] in.op = "single_static" ->
             Effect(single_static_messages(ColorOf(in.cols[1])))
      [] in.op = "single_breathing" ->
             Effect(single_breathing_messages(ColorOf(in.cols[1]),
                                              ColorOf(in.cols[2]), in.speed))
      [] in.op = "single_colorcycle" -> Effect(single_colorcycle_messages(in.speed))
      [] in.op = "multi_static" ->
             Effect(multi_static_messages([i \in 1..Len(in.cols) |-> ColorOf(in.cols[i])]))
      [] in.op = "multi_breathing" ->
             Effect(multi_breathing_messages(
                        [i \in 1..Len(in.cols) |-> ColorOf(in.cols[i])], in.speed))
      [] in.op = "rainbow_cycle" -> Effect(rainbow_cycle_messages(in.speed))
      [] in.op = "rainbow" -> Effect(rainbow_messages)
      [] in.op = "apply_color" -> usb_apply_color(in.name)
      [] in.op = "apply_custom_color" -> usb_apply_custom_color(in.cols[1])

DefaultHexColors ==
    << <<"f", "f", "0", "0", "0", "0">>, <<"0", "0", "f", "f", "0", "0">>,
       <<"0", "0", "0", "0", "f", "f">>, <<"f", "f", "f", "f", "0", "0">> >>

AllHexOk(hexes) == \A i \in 1..Len(hexes) : from_hex(hexes[i]).ok
HexColors(hexes) == [i \in 1..Len(hexes) |-> from_hex(hexes[i]).color]

\* The RogAuraNative command methods past their connected guard; in.cols
\* are hex strings, in.speed an integer, in.dflt says colors is None.
NativePlan(in) ==
    CASE in.op = "set_brightness" -> usb_set_brightness(in.level)
      [] in.op = "initialize_keyboard" -> Plain(initialize_messages)
      [] in.op = "apply_color" -> usb_apply_color(in.name)
      [] in.op = "apply_custom_color" -> usb_apply_custom_color(in.cols[1])
      [] in.op = "rainbow" -> Effect(rainbow_messages)
      [] in.op = "single_static" ->
             IF AllHexOk(in.cols)
             THEN Effect(single_static_messages(from_hex(in.cols[1]).color))
             ELSE Invalid
      [] in.op = "single_breathing" ->
             IF AllHexOk(in.cols) /\ SpeedValid(in.speed)
             THEN Effect(single_breathing_messages(from_hex(in.cols[1]).color,
                             from_hex(in.cols[2]).color, in.speed))
             ELSE Invalid
      [] in.op = "single_colorcycle" ->
             IF SpeedValid(in.speed)
             THEN Effect(single_colorcycle_messages(in.speed)) ELSE Invalid
      [] in.op = "rainbow_cycle" ->
             IF SpeedValid(in.speed)
             THEN Effect(rainbow_cycle_messages(in.speed)) ELSE Invalid
      [] in.op = "multi_static" ->
             LET colors == IF in.dflt THEN DefaultHexColors ELSE in.cols
             IN  IF AllHexOk(colors)
                 THEN Effect(multi_static_messages(HexColors(colors)))
                 ELSE Invalid
      [] in.op = "multi_breathing" ->
             LET colors == IF in.dflt THEN DefaultHexColors ELSE in.cols
             IN  IF AllHexOk(colors) /\ SpeedValid(in.speed)
                 THEN Effect(multi_breathing_messages(HexColors(colors), in.speed))
                 ELSE Invalid

\* The start of API call `in` on session s: the observations of the
\* previous call are dropped.
BeginCall(s, in) ==
    /\ pc[s] = "idle"
    /\ ncalls < Budget
    /\ ncalls' = ncalls + 1
    /\ call' = [call EXCEPT ![s] = in]
    /\ sentLog' = [sentLog EXCEPT ![s] = <<>>]
    /\ failedAt' = [failedAt EXCEPT ![s] = 0]
    /\ xferLog' = [xferLog EXCEPT ![s] = <<>>]
    /\ result' = [result EXCEPT ![s] = <<>>]

ClearMessages(s) ==
    /\ messages' = [messages EXCEPT ![s] = <<>>]
    /\ set_and_apply' = [set_and_apply EXCEPT ![s] = FALSE]

\* ------------------------------------------------- RogAuraUSB.connect
\* The return of RogAuraUSB.connect with result r ("true"/"false"), and
\* what the calling layer does with it: RogAuraNative.connect stores it in
\* connected; _execute_with_connection goes on to the operation when it is
\* true and to its finally block when it is false.
ConnectReturn(s, r, stage) ==
    /\ connStage' = [connStage EXCEPT ![s] = stage]
    /\ connected' = IF layer[s] = "usb" THEN connected
                    ELSE [connected EXCEPT ![s] = (r = "true")]
    /\ pc' = [pc EXCEPT ![s] = IF layer[s] = "backend"
                               THEN (IF r = "true" THEN "b_op" ELSE "b_final")
                               ELSE "idle"]
    /\ ret' = [ret EXCEPT ![s] = IF layer[s] = "backend" /\ r = "true"
                                 THEN "pending" ELSE r]

\* Variant: connect goes on to the configuration step with whatever the
\* scan returned.
ConnectFind_NoCheck(s) ==
    /\ usbLog' = [usbLog EXCEPT ![s] = <<"find">>]
    /\ device' = [device EXCEPT ![s] = FindDevice]
    /\ didDetach' = [didDetach EXCEPT ![s] = FALSE]
    /\ detachFailed' = [detachFailed EXCEPT ![s] = FALSE]
    /\ pc' = [pc EXCEPT ![s] = "c_cfg"]
    /\ ret' = [ret EXCEPT ![s] = "pending"]
    /\ connStage' = [connStage EXCEPT ![s] = "running"]
    /\ connected' = connected

\* Lines 71-81: forget the device, scan the allow-list, fail when nothing
\* is found.
ConnectFind(s) ==
    /\ usbLog' = [usbLog EXCEPT ![s] = <<"find">>]
    /\ device' = [device EXCEPT ![s] = FindDevice]
    /\ didDetach' = [didDetach EXCEPT ![s] = FALSE]
    /\ detachFailed' = [detachFailed EXCEPT ![s] = FALSE]
    /\ IF FindDevice = NoDevice
       THEN ConnectReturn(s, "false", "notfound")
       ELSE /\ pc' = [pc EXCEPT ![s] = "c_cfg"]
            /\ ret' = [ret EXCEPT ![s] = "pending"]
            /\ connStage' = [connStage EXCEPT ![s] = "running"]
            /\ connected' = connected

\* RogAuraUSB.connect called directly, or RogAuraNative.connect.
ConnectCall(s) ==
    /\ layer[s] \in {"usb", "native"}
    /\ BeginCall(s, Call0("connect"))
    /\ ClearMessages(s)
    /\ ConnectFind(s)
    /\ UNCHANGED <<envVars, layer, interface, kernel_driver_was_active,
                   initBound, templates, fault>>

\* Lines 83-91: read the active configuration, setting one when the read
\* raises USBError; select interface (0,0); reset kernel_driver_was_active.
ConnectConfig(s) ==
    /\ pc[s] = "c_cfg"
    /\ \E outcome \in {"active", "set", "error"} :
         /\ usbLog' = [usbLog EXCEPT ![s] = @ \o
                (CASE outcome = "active" -> <<"get_active_configuration">>
                   [] outcome = "set" -> <<"get_active_configuration",
                          "set_configuration", "get_active_configuration">>
                   [] outcome = "error" -> <<"get_active_configuration",
                          "set_configuration">>)]
         /\ IF outcome = "error"
            THEN /\ ConnectReturn(s, "false", "cfg")
                 /\ fault' = TRUE
                 /\ UNCHANGED <<interface, kernel_driver_was_active>>
            ELSE /\ interface' = [interface EXCEPT ![s] = TRUE]
                 /\ kernel_driver_was_active' =
                        [kernel_driver_was_active EXCEPT ![s] = "no"]
                 /\ pc' = [pc EXCEPT ![s] = "c_chk"]
                 /\ UNCHANGED <<ret, connStage, connected, fault>>
    /\ UNCHANGED <<envVars, layer, device, ncalls, call, sendVars, didDetach,
                   detachFailed, initBound, templates, result>>

\* Line 92: is_kernel_driver_active; an error here reaches the outer except.
ConnectCheck(s) ==
    /\ pc[s] = "c_chk"
    /\ Log(s, "is_kernel_driver_active")
    /\ \E ok \in BOOLEAN :
         IF ok
         THEN /\ pc' = [pc EXCEPT ![s] = IF kernelBound THEN "c_detach"
                                         ELSE "c_claim"]
              /\ UNCHANGED <<ret, connStage, connected, fault>>
         ELSE ConnectReturn(s, "false", "chk") /\ fault' = TRUE
    /\ UNCHANGED <<envVars, layer, usbVars, ncalls, call, sendVars, didDetach,
                   detachFailed, initBound, templates, result>>

\* Variant: a detach error reaches the outer except and connect returns
\* False without trying the claim.
ConnectDetach_Fatal(s) ==
    /\ pc[s] = "c_detach"
    /\ Log(s, "detach_kernel_driver")
    /\ \E ok \in BOOLEAN :
         IF ok
         THEN /\ kernelBound
              /\ kernelBound' = FALSE
              /\ kernel_driver_was_active' =
                     [kernel_driver_was_active EXCEPT ![s] = "yes"]
              /\ didDetach' = [didDetach EXCEPT ![s] = TRUE]
              /\ pc' = [pc EXCEPT ![s] = "c_claim"]
              /\ UNCHANGED <<detachFailed, fault, connected, ret, connStage>>
         ELSE /\ detachFailed' = [detachFailed EXCEPT ![s] = TRUE]
              /\ fault' = (fault \/ kernelBound)
              /\ ConnectReturn(s, "false", "detach")
              /\ UNCHANGED <<kernelBound, kernel_driver_was_active, didDetach>>
    /\ UNCHANGED <<attached, claimed, layer, device, interface,
                   ncalls, call, sendVars, initBound, templates, result>>

\* Lines 93-98: detach the kernel driver; a USBError is logged as a warning
\* and connect goes on to the claim.
ConnectDetach(s) ==
    /\ pc[s] = "c_detach"
    /\ Log(s, "detach_kernel_driver")
    /\ \E ok \in BOOLEAN :
         IF ok
         THEN /\ kernelBound
              /\ kernelBound' = FALSE
              /\ kernel_driver_was_active' =
                     [kernel_driver_was_active EXCEPT ![s] = "yes"]
              /\ didDetach' = [didDetach EXCEPT ![s] = TRUE]
              /\ UNCHANGED <<detachFailed, fault>>
         ELSE /\ detachFailed' = [detachFailed EXCEPT ![s] = TRUE]
              /\ fault' = (fault \/ kernelBound)
              /\ UNCHANGED <<kernelBound, kernel_driver_was_active, didDetach>>
    /\ pc' = [pc EXCEPT ![s] = "c_claim"]
    /\ UNCHANGED <<attached, claimed, layer, device, interface, connected,
                   ncalls, call, sendVars, ret, connStage, initBound, templates, result>>

\* Variant: a claim error is only logged, as a detach error is.
ConnectClaim_Swallow(s) ==
    /\ pc[s] = "c_claim"
    /\ Log(s, "claim_interface")
    /\ \E ok \in BOOLEAN :
         IF ok
         THEN /\ ClaimAvailable(s)
              /\ claimed' = claimed \cup {s}
              /\ ConnectReturn(s, "true", "ok")
              /\ fault' = fault
         ELSE /\ claimed' = claimed
              /\ fault' = (fault \/ ClaimAvailable(s))
              /\ ConnectReturn(s, "true", "claim")
    /\ UNCHANGED <<attached, kernelBound, layer, usbVars, ncalls, call, sendVars,
                   didDetach, detachFailed, initBound, templates, result>>

\* Lines 100-106: claim the interface; any exception makes connect return
\* False.
ConnectClaim(s) ==
    /\ pc[s] = "c_claim"
    /\ Log(s, "claim_interface")
    /\ \E ok \in BOOLEAN :
         IF ok
         THEN /\ ClaimAvailable(s)
              /\ claimed' = claimed \cup {s}
              /\ ConnectReturn(s, "true", "ok")
              /\ fault' = fault
         ELSE /\ claimed' = claimed
              /\ fault' = (fault \/ ClaimAvailable(s))
              /\ ConnectReturn(s, "false", "claim")
    /\ UNCHANGED <<attached, kernelBound, layer, usbVars, ncalls, call, sendVars,
                   didDetach, detachFailed, initBound, templates, result>>

\* ---------------------------------------------- RogAuraUSB.disconnect
\* The return of disconnect: RogAuraNative.disconnect (line 290) and the
\* finally block of _execute_with_connection clear connected afterwards.
\* A backend call returns the result it had already decided.
DisconnectReturn(s) ==
    /\ pc' = [pc EXCEPT ![s] = "idle"]
    /\ connected' = IF layer[s] = "usb" THEN connected
                    ELSE [connected EXCEPT ![s] = FALSE]
    /\ ret' = IF layer[s] = "backend" THEN ret
              ELSE [ret EXCEPT ![s] = "void"]

\* Variant: no test of device and interface before the release.
DisconnectRelease_Unguarded(s, base) ==
    /\ usbLog' = [usbLog EXCEPT ![s] = Append(base, "release_interface")]
    /\ \E ok \in BOOLEAN :
         IF ok
         THEN /\ pc' = [pc EXCEPT ![s] =
                    IF kernel_driver_was_active[s] = "yes"
                    THEN "d_reattach" ELSE "d_dispose"]
              /\ claimed' = claimed \ {s}
              /\ UNCHANGED <<device, interface, connected, ret, fault>>
         ELSE /\ fault' = TRUE
              /\ claimed' = claimed \ {s}
              /\ device' = [device EXCEPT ![s] = NoDevice]
              /\ interface' = [interface EXCEPT ![s] = FALSE]
              /\ DisconnectReturn(s)

\* Lines 109-111 and 122-126: when device and interface are set, release
\* the interface.  A release error skips to the finally block, which
\* clears both references; the dropped handle is closed, which ends its
\* claim.  When the guard fails disconnect does nothing.  base is the
\* log of the API call so far.
DisconnectRelease(s, base) ==
    IF device[s] # NoDevice /\ interface[s]
    THEN /\ usbLog' = [usbLog EXCEPT ![s] = Append(base, "release_interface")]
         /\ \E ok \in BOOLEAN :
              IF ok
              THEN /\ pc' = [pc EXCEPT ![s] =
                         IF kernel_driver_was_active[s] = "yes"
                         THEN "d_reattach" ELSE "d_dispose"]
                   /\ claimed' = claimed \ {s}
                   /\ UNCHANGED <<device, interface, connected, ret, fault>>
              ELSE /\ fault' = TRUE
                   /\ claimed' = claimed \ {s}
                   /\ device' = [device EXCEPT ![s] = NoDevice]
                   /\ interface' = [interface EXCEPT ![s] = FALSE]
                   /\ DisconnectReturn(s)
    ELSE /\ DisconnectReturn(s)
         /\ usbLog' = [usbLog EXCEPT ![s] = base]
         /\ UNCHANGED <<claimed, device, interface, fault>>

\* RogAuraUSB.disconnect called directly, or RogAuraNative.disconnect
\* (lines 287-290), which calls it only when connected.
DisconnectCall(s) ==
    /\ layer[s] \in {"usb", "native"}
    /\ BeginCall(s, Call0("disconnect"))
    /\ ClearMessages(s)
    /\ IF layer[s] = "native" /\ ~connected[s]
       THEN /\ pc' = pc
            /\ ret' = [ret EXCEPT ![s] = "void"]
            /\ usbLog' = [usbLog EXCEPT ![s] = <<>>]
            /\ UNCHANGED <<claimed, device, interface, connected, fault>>
       ELSE DisconnectRelease(s, <<>>)
    /\ UNCHANGED <<attached, kernelBound, layer, kernel_driver_was_active,
                   obsVars, initBound, templates>>

\* Variant: a reattach error is not caught by an inner handler, so it
\* skips dispose_resources and reaches the finally block.
DisconnectReattach_Escalates(s) ==
    /\ pc[s] = "d_reattach"
    /\ \E ok \in BOOLEAN :
         IF ok
         THEN /\ AttachAvailable
              /\ Log(s, "attach_kernel_driver")
              /\ kernelBound' = TRUE
              /\ fault' = fault
              /\ pc' = [pc EXCEPT ![s] = "d_dispose"]
              /\ UNCHANGED <<device, interface, connected, ret, claimed>>
         ELSE /\ Log(s, "attach_kernel_driver raised")
              /\ kernelBound' = kernelBound
              /\ fault' = (fault \/ AttachAvailable)
              /\ claimed' = claimed \ {s}
              /\ device' = [device EXCEPT ![s] = NoDevice]
              /\ interface' = [interface EXCEPT ![s] = FALSE]
              /\ DisconnectReturn(s)
    /\ UNCHANGED <<attached, layer, kernel_driver_was_active, ncalls,
                   call, sendVars, obsVars, initBound, templates, result>>

\* Lines 112-119: reattach the kernel driver when this session recorded
\* that it detached it; a failure is logged only.
DisconnectReattach(s) ==
    /\ pc[s] = "d_reattach"
    /\ \E ok \in BOOLEAN :
         IF ok
         THEN /\ AttachAvailable
              /\ Log(s, "attach_kernel_driver")
              /\ kernelBound' = TRUE
              /\ fault' = fault
         ELSE /\ Log(s, "attach_kernel_driver raised")
              /\ kernelBound' = kernelBound
              /\ fault' = (fault \/ AttachAvailable)
    /\ pc' = [pc EXCEPT ![s] = "d_dispose"]
    /\ UNCHANGED <<attached, claimed, layer, usbVars, connected, ncalls,
                   call, sendVars, ret, obsVars, initBound, templates, result>>

\* Lines 120-126: dispose the handle (which drops any claim it holds) and
\* clear device and interface.
DisconnectDispose(s) ==
    /\ pc[s] = "d_dispose"
    /\ Log(s, "dispose_resources")
    /\ claimed' = claimed \ {s}
    /\ device' = [device EXCEPT ![s] = NoDevice]
    /\ interface' = [interface EXCEPT ![s] = FALSE]
    /\ DisconnectReturn(s)
    /\ UNCHANGED <<attached, kernelBound, layer, kernel_driver_was_active,
                   ncalls, call, sendVars, obsVars, initBound, templates, result, fault>>

\* --------------------------------------------------- inputs of the calls
HexGood == <<"1", "A", "2", "B", "3", "C">>
HexHash == <<"#", "f", "f", "0", "0", "0", "0">>
HexBad  == <<"1", "2", "g", "4", "5", "6">>
HexSigned == <<"+", "f", "-", "1", " ", "a">>

\* Brightness arguments: the ends of the range and the integers next to it.
Levels == {-1, 0, 3, 4}

\* Colour lists of every length 0..MaxColors for the multi-zone methods;
\* the i-th colour is distinct for each i and has one channel out of range.
ColorList(n) == [i \in 1..n |-> <<i, 10 * i, 250 + i>>]

UsbInputs ==
    { In("set_brightness", <<>>, 0, l, "", FALSE) : l \in Levels } \cup
    { In("multi_static", ColorList(n), 0, 0, "", FALSE) : n \in 0..MaxColors } \cup
    { In("multi_breathing", ColorList(n), 3, 0, "", FALSE) : n \in 0..MaxColors } \cup
    { Call0("initialize_keyboard"), Call0("rainbow"),
      In("single_static", << <<26, 43, 60>> >>, 0, 0, "", FALSE),
      In("single_breathing", << <<255, 0, 0>>, <<0, 0, 300>> >>, 1, 0, "", FALSE),
      In("single_colorcycle", <<>>, 3, 0, "", FALSE),
      In("rainbow_cycle", <<>>, 2, 0, "", FALSE),
      In("apply_color", <<>>, 0, 0, "red", FALSE),
      In("apply_color", <<>>, 0, 0, "purple", FALSE),
      In("apply_custom_color", <<HexGood>>, 0, 0, "", FALSE),
      In("apply_custom_color", <<HexBad>>, 0, 0, "", FALSE) } \cup
    { In("single_breathing", << <<1, 2, 3>>, <<40, 50, 60>> >>, v, 0, "", FALSE) :
          v \in {2, 3} } \cup
    { In("single_colorcycle", <<>>, v, 0, "", FALSE) : v \in {1, 2} } \cup
    { In("rainbow_cycle", <<>>, v, 0, "", FALSE) : v \in {1, 3} } \cup
    { In("multi_breathing", ColorList(4), v, 0, "", FALSE) : v \in {1, 2} }

NativeInputs ==
    { In("set_brightness", <<>>, 0, l, "", FALSE) : l \in Levels } \cup
    { Call0("initialize_keyboard"), Call0("rainbow"),
      In("single_static", <<HexHash>>, 0, 0, "", FALSE),
      In("single_breathing", <<HexGood, HexHash>>, 1, 0, "", FALSE),
      In("single_breathing", <<HexGood, HexBad>>, 1, 0, "", FALSE),
      In("single_colorcycle", <<>>, 3, 0, "", FALSE),
      In("single_static", <<HexSigned>>, 0, 0, "", FALSE),
      In("single_breathing", <<HexGood, HexGood>>, 0, 0, "", FALSE),
      In("single_colorcycle", <<>>, 4, 0, "", FALSE),
      In("rainbow_cycle", <<>>, 2, 0, "", FALSE),
      In("rainbow_cycle", <<>>, -1, 0, "", FALSE),
      In("multi_static", <<>>, 0, 0, "", TRUE),
      In("multi_breathing", <<HexGood, HexHash, HexBad>>, 2, 0, "", FALSE),
      In("multi_breathing", <<HexGood>>, 5, 0, "", FALSE),
      In("multi_static", <<HexGood, HexBad>>, 0, 0, "", FALSE),
      In("multi_static", <<HexGood, HexHash, HexGood, HexHash, HexGood, HexHash>>,
         0, 0, "", FALSE),
      In("multi_breathing", <<HexGood, HexHash>>, 2, 0, "", FALSE),
      In("apply_color", <<>>, 0, 0, "red", FALSE),
      In("apply_color", <<>>, 0, 0, "purple", FALSE),
      In("apply_custom_color", <<HexGood>>, 0, 0, "", FALSE),
      In("apply_custom_color", <<HexBad>>, 0, 0, "", FALSE) }

\* ---------------------------------------------- RogAuraBackendNative
\* str.lower() on the colour names used as inputs.
Lower(name) == CASE name = "RED" -> "red" [] name = "Gold" -> "gold" [] OTHER -> name

ValidColors == {"red", "green", "blue", "yellow", "gold", "cyan", "magenta",
                "white", "black"}

StripHash(hex_color) ==
    IF Len(hex_color) > 0 /\ hex_color[1] = "#" THEN Tail(hex_color) ELSE hex_color

NoCall == [valid |-> FALSE, native |-> Call0("none")]
Run(in) == [valid |-> TRUE, native |-> in]

\* RogAuraBackendNative.apply_custom_color (lines 100-114)
backend_apply_custom_color(hex_color) ==
    LET h == StripHash(hex_color)
    IN  IF PyIntHexOk(h) /\ Len(h) = 6
        THEN Run(In("apply_custom_color", <<h>>, 0, 0, "", FALSE))
        ELSE NoCall

\* Lines 123-125 and 153-154: an out-of-range speed becomes 2.
DefaultedSpeed(speed) == IF 1 <= speed /\ speed <= 3 THEN speed ELSE 2

\* The public methods of the backend (lines 75-173): valid = FALSE is a
\* return False before _execute_with_connection; otherwise the
\* RogAuraNative call its lambda makes on the temporary session.
BackendPlan(in) ==
    CASE in.op = "set_brightness" ->
             IF 0 <= in.level /\ in.level <= 3 THEN Run(in) ELSE NoCall
      [] in.op = "apply_color" ->
             IF Lower(in.name) \in ValidColors
             THEN Run(In("apply_color", <<>>, 0, 0, Lower(in.name), FALSE))
             ELSE NoCall
      [] in.op = "apply_custom_color" -> backend_apply_custom_color(in.cols[1])
      [] in.op = "apply_single_effect" ->
             IF in.name = "single_static"
             THEN backend_apply_custom_color(in.cols[1]) ELSE NoCall
      [] in.op = "apply_speed_effect" ->
             IF in.name = "single_breathing"
             THEN Run(In("single_breathing",
                         << <<"f", "f", "f", "f", "f", "f">>,
                            <<"f", "f", "0", "0", "0", "0">> >>,
                         DefaultedSpeed(in.speed), 0, "", FALSE))
             ELSE IF in.name \in {"single_colorcycle", "rainbow_cycle"}
             THEN Run(In(in.name, <<>>, DefaultedSpeed(in.speed), 0, "", FALSE))
             ELSE NoCall
      [] in.op = "apply_multi_zone_effect" ->
             IF in.name = "multi_static"
             THEN Run(In("multi_static", <<>>, 0, 0, "", TRUE))
             ELSE IF in.name = "multi_breathing"
             THEN Run(In("multi_breathing", <<>>,
                         IF in.speed = 0 THEN 2 ELSE DefaultedSpeed(in.speed),
                         0, "", TRUE))
             ELSE NoCall
      [] in.op = "apply_rainbow" -> Run(Call0("rainbow"))
      [] in.op = "initialize_keyboard" -> Run(Call0("initialize_keyboard"))
      [] OTHER -> NoCall

BackendInputs ==
    { In("set_brightness", <<>>, 0, l, "", FALSE) : l \in Levels } \cup
    { In("apply_speed_effect", <<>>, sp, 0, e, FALSE) :
          sp \in {1, 4}, e \in {"single_breathing", "single_colorcycle",
                                "rainbow_cycle", "wave"} } \cup
    { In("apply_multi_zone_effect", <<>>, sp, 0, e, FALSE) :
          sp \in {0, 3, 4}, e \in {"multi_static", "multi_breathing"} } \cup
    { Call0("initialize_keyboard"), Call0("apply_rainbow"),
      In("apply_color", <<>>, 0, 0, "RED", FALSE),
      In("apply_color", <<>>, 0, 0, "purple", FALSE),
      In("apply_custom_color", <<HexHash>>, 0, 0, "", FALSE),
      In("apply_custom_color", <<HexBad>>, 0, 0, "", FALSE),
      In("apply_single_effect", <<HexGood>>, 0, 0, "single_static", FALSE) }

\* With two live sessions the calls are drawn from these.
DuoInputs ==
    { In("set_brightness", <<>>, 0, 2, "", FALSE),
      In("apply_color", <<>>, 0, 0, "red", FALSE) }

InputsOf(s) ==
    IF Duo THEN DuoInputs
    ELSE CASE layer[s] = "usb" -> UsbInputs
           [] layer[s] = "native" -> NativeInputs
           [] layer[s] = "backend" -> BackendInputs
           [] OTHER -> {}

\* ------------------------------------------- RogAuraUSB._send_message
\* Outcomes of one ctrl_transfer: all 17 bytes acknowledged, a short
\* count, or an exception (a USB error, or the 1000 ms timeout).
XferOutcomes == {"ack", "short", "error", "timeout"}

\* The byte count ctrl_transfer returns; -1 and -2 stand for the two
\* exceptions, which return no count.
Transferred(message, outcome) ==
    CASE outcome = "ack" -> Len(message)
      [] outcome = "short" -> Len(message) - 1
      [] outcome = "error" -> -1
      [] outcome = "timeout" -> -2

\* Variant: any count that ctrl_transfer returns is taken as success.
send_message_result_AnyCount(s, message, outcome) ==
    /\ device[s] # NoDevice
    /\ outcome \notin {"error", "timeout"}

\* Lines 134-151: False without a transfer when device is None; else one
\* ctrl_transfer, True exactly when it reports len(message) bytes.
send_message_result(s, message, outcome) ==
    /\ device[s] # NoDevice
    /\ outcome \notin {"error", "timeout"}
    /\ Transferred(message, outcome) = Len(message)

\* The effect of that _send_message on the logs and the host.  A control
\* transfer to the interface from a handle that does not hold the claim
\* claims it implicitly, which fails while someone else holds it.
send_message(s, message, outcome) ==
    IF device[s] = NoDevice
    THEN /\ outcome = "error"
         /\ UNCHANGED <<usbLog, sentLog, failedAt, xferLog, claimed>>
    ELSE /\ Log(s, "ctrl_transfer")
         /\ sentLog' = [sentLog EXCEPT ![s] = Append(@, message)]
         /\ xferLog' = [xferLog EXCEPT ![s] = Append(@, Transferred(message, outcome))]
         /\ failedAt' = [failedAt EXCEPT ![s] =
                IF @ = 0 /\ ~send_message_result(s, message, outcome)
                THEN Len(sentLog[s]) + 1 ELSE @]
         /\ IF s \in claimed THEN claimed' = claimed
            ELSE IF ClaimAvailable(s)
                 THEN \/ claimed' = claimed \cup {s}
                      \/ outcome = "error" /\ claimed' = claimed
                 ELSE outcome = "error" /\ claimed' = claimed

\* The return of a command method with result r.
OpReturn(s, r) ==
    /\ pc' = [pc EXCEPT ![s] = IF layer[s] = "backend" THEN "b_final" ELSE "idle"]
    /\ ret' = [ret EXCEPT ![s] = r]

\* ------------------------------------------ RogAuraUSB._send_messages
\* Variant: the payload is followed directly by the apply packet.
AfterPayload_NoCommit(s, k) ==
    IF k < Len(messages[s]) THEN pc' = [pc EXCEPT ![s] = "s_payload"] /\ ret' = ret
    ELSE IF set_and_apply[s] THEN pc' = [pc EXCEPT ![s] = "s_apply"] /\ ret' = ret
    ELSE OpReturn(s, "true")

\* Where _send_messages stands after k payload messages were sent.
AfterPayload(s, k) ==
    IF k < Len(messages[s]) THEN pc' = [pc EXCEPT ![s] = "s_payload"] /\ ret' = ret
    ELSE IF set_and_apply[s] THEN pc' = [pc EXCEPT ![s] = "s_set"] /\ ret' = ret
    ELSE OpReturn(s, "true")

\* Lines 155-157: send the next message of the list; stop on failure.
SendPayload(s) ==
    /\ pc[s] = "s_payload"
    /\ LET k == Len(sentLog[s]) + 1
           message == messages[s][k]
       IN  \E outcome \in XferOutcomes :
             /\ send_message(s, message, outcome)
             /\ IF send_message_result(s, message, outcome)
                THEN AfterPayload(s, k)
                ELSE OpReturn(s, "false")
    /\ UNCHANGED <<attached, kernelBound, layer, usbVars, connected, messages,
                   set_and_apply, ncalls, call, obsVars, initBound, templates,
                   result, fault>>

\* Variant: the result of sending the commit packet is not tested.
SendSet_IgnoresFailure(s) ==
    /\ pc[s] = "s_set"
    /\ \E outcome \in XferOutcomes :
         /\ send_message(s, templates.set, outcome)
         /\ pc' = [pc EXCEPT ![s] = "s_apply"] /\ ret' = ret
    /\ UNCHANGED <<attached, kernelBound, layer, usbVars, connected, messages,
                   set_and_apply, ncalls, call, obsVars, initBound, templates,
                   result, fault>>

\* Lines 159-161: the commit packet.
SendSet(s) ==
    /\ pc[s] = "s_set"
    /\ \E outcome \in XferOutcomes :
         /\ send_message(s, templates.set, outcome)
         /\ IF send_message_result(s, templates.set, outcome)
            THEN pc' = [pc EXCEPT ![s] = "s_apply"] /\ ret' = ret
            ELSE OpReturn(s, "false")
    /\ UNCHANGED <<attached, kernelBound, layer, usbVars, connected, messages,
                   set_and_apply, ncalls, call, obsVars, initBound, templates,
                   result, fault>>

\* Variant: an apply transfer that fails is sent once more.
SendApply_Retry(s) ==
    /\ pc[s] = "s_apply"
    /\ \E outcome \in XferOutcomes :
         /\ send_message(s, templates.apply, outcome)
         /\ IF send_message_result(s, templates.apply, outcome)
            THEN OpReturn(s, "true")
            ELSE IF failedAt[s] = 0
                 THEN pc' = pc /\ ret' = ret
                 ELSE OpReturn(s, "false")
    /\ UNCHANGED <<attached, kernelBound, layer, usbVars, connected, messages,
                   set_and_apply, ncalls, call, obsVars, initBound, templates,
                   result, fault>>

\* Lines 162-165: the apply packet, then True.
SendApply(s) ==
    /\ pc[s] = "s_apply"
    /\ \E outcome \in XferOutcomes :
         /\ send_message(s, templates.apply, outcome)
         /\ IF send_message_result(s, templates.apply, outcome)
            THEN OpReturn(s, "true")
            ELSE OpReturn(s, "false")
    /\ UNCHANGED <<attached, kernelBound, layer, usbVars, connected, messages,
                   set_and_apply, ncalls, call, obsVars, initBound, templates,
                   result, fault>>

\* Entry of _send_messages with the list a method built.
send_messages(s, plan) ==
    /\ messages' = [messages EXCEPT ![s] = plan.messages]
    /\ set_and_apply' = [set_and_apply EXCEPT ![s] = plan.set_and_apply]
    /\ IF Len(plan.messages) > 0
       THEN pc' = [pc EXCEPT ![s] = "s_payload"]
       ELSE pc' = [pc EXCEPT ![s] = IF plan.set_and_apply THEN "s_set" ELSE "idle"]
    /\ ret' = [ret EXCEPT ![s] = "pending"]

\* Variant: RogAuraNative does not test connected before the command.
CommandCall_NoGuard(s, in) ==
    /\ layer[s] \in {"usb", "native"}
    /\ in \in InputsOf(s)
    /\ BeginCall(s, in)
    /\ usbLog' = [usbLog EXCEPT ![s] = <<>>]
    /\ LET plan == IF layer[s] = "usb" THEN UsbPlan(in) ELSE NativePlan(in)
       IN  IF ~plan.valid
           THEN /\ OpReturn(s, "false")
                /\ ClearMessages(s)
                /\ templates' = templates
           ELSE /\ send_messages(s, plan)
                /\ templates' = TemplatesAfter(in)
    /\ UNCHANGED <<envVars, layer, usbVars, connected, obsVars, initBound, fault>>

\* The command methods of RogAuraNative (lines 299-387), which return
\* False when not connected, and of RogAuraUSB (lines 171-273).
CommandCall(s, in) ==
    /\ layer[s] \in {"usb", "native"}
    /\ in \in InputsOf(s)
    /\ BeginCall(s, in)
    /\ usbLog' = [usbLog EXCEPT ![s] = <<>>]
    /\ LET plan == IF layer[s] = "usb" THEN UsbPlan(in) ELSE NativePlan(in)
       IN  IF (layer[s] = "native" /\ ~connected[s]) \/ ~plan.valid
           THEN /\ OpReturn(s, "false")
                /\ ClearMessages(s)
                /\ templates' = templates
           ELSE /\ send_messages(s, plan)
                /\ templates' = TemplatesAfter(in)
    /\ UNCHANGED <<envVars, layer, usbVars, connected, obsVars, initBound, fault>>

\* ------------------------- RogAuraBackendNative._execute_with_connection
\* A public backend method: its own validation, then (line 50) a fresh
\* RogAuraNative and (line 53) its connect().
BackendCall(s, in) ==
    /\ layer[s] = "backend"
    /\ in \in InputsOf(s)
    /\ BeginCall(s, in)
    /\ ClearMessages(s)
    /\ IF BackendPlan(in).valid
       THEN /\ interface' = [interface EXCEPT ![s] = FALSE]
            /\ kernel_driver_was_active' =
                   [kernel_driver_was_active EXCEPT ![s] = "absent"]
            /\ ConnectFind(s)
       ELSE /\ usbLog' = [usbLog EXCEPT ![s] = <<>>]
            /\ pc' = pc
            /\ ret' = [ret EXCEPT ![s] = "false"]
            /\ UNCHANGED <<usbVars, connected, obsVars>>
    /\ UNCHANGED <<envVars, layer, initBound, templates, fault>>

\* Line 58: operation_func(temp_aura), a RogAuraNative command method on
\* the connected temporary session.
BackendOperation(s) ==
    /\ pc[s] = "b_op"
    /\ LET plan == NativePlan(BackendPlan(call[s]).native)
       IN  IF ~connected[s] \/ ~plan.valid
           THEN /\ OpReturn(s, "false")
                /\ UNCHANGED <<messages, set_and_apply, templates>>
           ELSE /\ send_messages(s, plan)
                /\ templates' = TemplatesAfter(BackendPlan(call[s]).native)
    /\ UNCHANGED <<envVars, layer, usbVars, connected, ncalls, call, usbLog,
                   sentLog, failedAt, xferLog, obsVars, initBound, result, fault>>

\* Lines 72-73: finally temp_aura.disconnect(), which calls
\* RogAuraUSB.disconnect only when connected; then the result is returned.
BackendFinally(s) ==
    /\ pc[s] = "b_final"
    /\ IF connected[s]
       THEN DisconnectRelease(s, usbLog[s])
       ELSE /\ DisconnectReturn(s)
            /\ UNCHANGED <<usbLog, claimed, device, interface, fault>>
    /\ UNCHANGED <<attached, kernelBound, layer, kernel_driver_was_active,
                   messages, set_and_apply, ncalls, call, sentLog, failedAt,
                   xferLog,
                   obsVars, initBound, templates, result>>

\* RogAuraBackendNative.connect (lines 24-41) and test_connection (lines
\* 175-179), which calls it: return True when already connected, otherwise
\* self.connected = self.aura.connect() on the long-lived session.
BackendConnect(s, op) ==
    /\ layer[s] = "aura"
    /\ BeginCall(s, Call0(op))
    /\ ClearMessages(s)
    /\ IF connected[s]
       THEN /\ usbLog' = [usbLog EXCEPT ![s] = <<>>]
            /\ pc' = pc
            /\ ret' = [ret EXCEPT ![s] = "true"]
            /\ UNCHANGED <<device, connected, obsVars>>
       ELSE ConnectFind(s)
    /\ UNCHANGED <<envVars, layer, interface, kernel_driver_was_active,
                   initBound, templates, fault>>

\* RogAuraBackendNative.disconnect (lines 43-47): self.aura.disconnect()
\* when connected, nothing otherwise.
BackendDisconnect(s) ==
    /\ layer[s] = "aura"
    /\ BeginCall(s, Call0("backend_disconnect"))
    /\ ClearMessages(s)
    /\ IF ~connected[s]
       THEN /\ pc' = pc
            /\ ret' = [ret EXCEPT ![s] = "void"]
            /\ usbLog' = [usbLog EXCEPT ![s] = <<>>]
            /\ UNCHANGED <<claimed, device, interface, connected, fault>>
       ELSE DisconnectRelease(s, <<>>)
    /\ UNCHANGED <<attached, kernelBound, layer, kernel_driver_was_active,
                   obsVars, initBound, templates>>

\* ------------------------------------------- Color and Speed constructors
\* Arguments of Color.from_hex: every string of three two-digit groups
\* drawn from HexGroups, bare and with a leading '#', and strings that are
\* not six hex digits: HexGood with one character replaced, strings of
\* other lengths, a doubled '#'.
HexGroups == { <<"0", "0">>, <<"f", "F">>, <<"1", "A">>, <<"a", "9">> }

SixDigitInputs == { a \o b \o c : a \in HexGroups, b \in HexGroups, c \in HexGroups }

OddChars == {"g", "+", "-", " ", "_", "x", "#"}

OtherInputs ==
    { [HexGood EXCEPT ![p] = c] : p \in 1..6, c \in OddChars } \cup
    { SubSeq(HexGood, 1, n) : n \in 0..5 } \cup
    { HexGood \o <<"0">>, <<"#", "#">> \o HexGood, <<"#">> \o SubSeq(HexGood, 1, 5),
      HexBad, HexSigned }

HexStrings ==
    SixDigitInputs \cup { <<"#">> \o h : h \in SixDigitInputs } \cup OtherInputs

\* Arguments of Speed(n).
SpeedLevels == {-1, 0, 1, 2, 3, 4}

\* A caller of RogAuraUSB builds a Color with Color.from_hex(h): the
\* channels of the Color, or ValueError (ret "false").
FromHexCall(s, h) ==
    /\ layer[s] = "usb"
    /\ pc[s] = "idle"
    /\ ncalls < Budget
    /\ ncalls' = ncalls + 1
    /\ call' = [call EXCEPT ![s] = In("from_hex", <<h>>, 0, 0, "", FALSE)]
    /\ LET c == from_hex(h)
       IN  /\ ret' = [ret EXCEPT ![s] = IF c.ok THEN "true" ELSE "false"]
           /\ result' = [result EXCEPT ![s] =
                  IF c.ok THEN <<c.color.red, c.color.green, c.color.blue>>
                  ELSE <<>>]
    /\ usbLog' = [usbLog EXCEPT ![s] = <<>>]
    /\ sentLog' = [sentLog EXCEPT ![s] = <<>>]
    /\ failedAt' = [failedAt EXCEPT ![s] = 0]
    /\ xferLog' = [xferLog EXCEPT ![s] = <<>>]
    /\ ClearMessages(s)
    /\ UNCHANGED <<envVars, layer, pc, usbVars, connected, obsVars, initBound,
                   templates, fault>>

\* A caller of RogAuraUSB builds a Speed with Speed(n): its protocol byte,
\* or ValueError (ret "false").
SpeedCall(s, n) ==
    /\ layer[s] = "usb"
    /\ pc[s] = "idle"
    /\ ncalls < Budget
    /\ ncalls' = ncalls + 1
    /\ call' = [call EXCEPT ![s] = In("Speed", <<>>, n, 0, "", FALSE)]
    /\ ret' = [ret EXCEPT ![s] = IF SpeedValid(n) THEN "true" ELSE "false"]
    /\ result' = [result EXCEPT ![s] =
           IF SpeedValid(n) THEN <<byte_value(n)>> ELSE <<>>]
    /\ usbLog' = [usbLog EXCEPT ![s] = <<>>]
    /\ sentLog' = [sentLog EXCEPT ![s] = <<>>]
    /\ failedAt' = [failedAt EXCEPT ![s] = 0]
    /\ xferLog' = [xferLog EXCEPT ![s] = <<>>]
    /\ ClearMessages(s)
    /\ UNCHANGED <<envVars, layer, pc, usbVars, connected, obsVars, initBound,
                   templates, fault>>

\* ------------------------------------------------------------------ Next
\* The steps of a session driven through one of the three API layers.
NextSolo ==
    \E s \in Sessions :
        \/ ConnectCall(s)
        \/ ConnectConfig(s)
        \/ ConnectCheck(s)
        \/ ConnectDetach(s)
        \/ ConnectClaim(s)
        \/ DisconnectCall(s)
        \/ DisconnectReattach(s)
        \/ DisconnectDispose(s)
        \/ \E in \in UsbInputs \cup NativeInputs \cup DuoInputs : CommandCall(s, in)
        \/ \E in \in BackendInputs \cup DuoInputs : BackendCall(s, in)
        \/ BackendOperation(s)
        \/ BackendFinally(s)
        \/ SendPayload(s)
        \/ SendSet(s)
        \/ SendApply(s)

\* Those steps, and the calls on the long-lived session of a backend.
Next ==
    \/ NextSolo
    \/ \E s \in Sessions :
          \/ \E op \in {"backend_connect", "test_connection"} : BackendConnect(s, op)
          \/ BackendDisconnect(s)

\* Two live sessions, possibly on different layers.
InitDuo == Init /\ Duo
Spec == InitDuo /\ [][Next]_vars

\* One session on its own; the other makes no call.
InitSolo == Init /\ ~Duo
SpecSolo == InitSolo /\ [][NextSolo]_vars

\* A caller that only builds Color and Speed values; the constructors read
\* nothing of the host, so one host state (no keyboard attached) is taken.
NextValues ==
    \E s \in Sessions :
        \/ \E h \in HexStrings : FromHexCall(s, h)
        \/ \E n \in SpeedLevels : SpeedCall(s, n)

InitValues == InitSolo /\ layer["A"] = "usb" /\ attached = {} /\ ~kernelBound
SpecValues == InitValues /\ [][NextValues]_vars

\* ================================================================ claims
SendPcs == {"s_payload", "s_set", "s_apply"}
ConnectPcs == {"c_cfg", "c_chk", "c_detach", "c_claim"}

IsCommand(s) ==
    call[s].op \notin {"none", "connect", "disconnect", "from_hex", "Speed",
                       "backend_connect", "test_connection", "backend_disconnect"}

\* The command method of the current call has returned.
CommandDone(s) == IsCommand(s) /\ pc[s] \notin SendPcs \cup ConnectPcs \cup {"b_op"}

\* The API call of s has returned to its caller.
CallDone(s) == pc[s] = "idle" /\ call[s].op # "none"

IsPrefix(p, q) == Len(p) <= Len(q) /\ SubSeq(q, 1, Len(p)) = p

Range(f) == {f[i] : i \in DOMAIN f}

\* The message list the command of the current call builds from its
\* arguments, by the layer the call is made through.
PlanOf(s) ==
    CASE layer[s] = "usb" -> UsbPlan(call[s])
      [] layer[s] = "native" -> NativePlan(call[s])
      [] layer[s] = "backend" -> NativePlan(BackendPlan(call[s]).native)

\* C1: an effect operation whose transfers are all acknowledged issues
\* exactly its payload packets in list order, then the commit packet, then
\* the apply packet, and returns success; at every moment what has been
\* sent is a prefix of that sequence, so commit never precedes the last
\* payload packet and apply never precedes commit.
C1_PayloadCommitApply ==
    \A s \in Sessions :
        set_and_apply[s] =>
            LET full == PlanOf(s).messages \o <<MESSAGE_SET, MESSAGE_APPLY>>
            IN  /\ IsPrefix(sentLog[s], full)
                /\ (CommandDone(s) /\ failedAt[s] = 0 /\ device[s] # NoDevice)
                       => (sentLog[s] = full /\ ret[s] = "true")
                /\ (CommandDone(s) /\ ret[s] = "true") => sentLog[s] = full

\* A four-zone effect has completed with all six transfers acknowledged.
C1_Witness ==
    \E s \in Sessions :
        /\ set_and_apply[s] /\ CommandDone(s)
        /\ Len(messages[s]) = 4 /\ Len(sentLog[s]) = 6
        /\ failedAt[s] = 0 /\ ret[s] = "true"

\* C2: once a transfer of an operation fails, no later packet of the
\* operation is transmitted and the operation returns failure.
C2_AbortOnFailure ==
    \A s \in Sessions :
        failedAt[s] # 0 =>
            /\ Len(sentLog[s]) = failedAt[s]
            /\ pc[s] \notin SendPcs
            /\ ret[s] = "false"

\* The commit packet failed after every payload packet was acknowledged.
C2_Witness ==
    \E s \in Sessions :
        /\ set_and_apply[s] /\ CommandDone(s)
        /\ failedAt[s] = Len(messages[s]) + 1
        /\ sentLog[s][failedAt[s]] = MESSAGE_SET

\* C3: when connect() fails at the configuration, kernel-driver or claim
\* step, what it acquired is rolled back: once the call (and, through
\* RogAuraNative or the backend, the disconnect that follows) has returned,
\* the session holds no claim and a kernel driver it detached is bound again.
C3_FailedConnectRolledBack ==
    \A s \in Sessions :
        ( /\ CallDone(s)
          /\ connStage[s] \in {"cfg", "chk", "claim"}
          /\ layer[s] = "backend" \/ call[s].op \in {"connect", "disconnect"} )
            => (s \notin claimed /\ (didDetach[s] => kernelBound))

\* C4: for every sequence of connect() and disconnect() calls on one
\* session in which no USB call of connect() or disconnect() fails, after
\* a disconnect() the kernel driver is bound iff it was bound initially.
C4_DriverRestoredAfterDisconnect ==
    \A s \in Sessions :
        (CallDone(s) /\ call[s].op = "disconnect" /\ ~fault)
            => (kernelBound = initBound)

\* C5: at most one session holds the interface claim, and a connect()
\* that reaches its claim step while another session holds the claim
\* returns failure and leaves that session's claim in place.
C5_ExclusiveClaim ==
    /\ [](Cardinality(claimed) <= 1)
    /\ [][\A t \in Sessions :
            (pc[t] = "c_claim" /\ pc'[t] # "c_claim" /\ claimed \ {t} # {})
                => (ret'[t] = "false" /\ connStage'[t] = "claim"
                        /\ claimed' = claimed)]_vars

\* A connect() has failed at its claim step while the other session,
\* whose connect() succeeded, holds the claim.
C5_Witness ==
    \E s \in Sessions, t \in Sessions :
        /\ s # t /\ s \in claimed /\ connStage[s] = "ok"
        /\ connStage[t] = "claim" /\ ret[t] = "false" /\ t \notin claimed

Attempted(s, name) == \E i \in DOMAIN usbLog[s] : usbLog[s][i] = name
C7_ReattachIffDetached ==
    \A s \in Sessions :
        (CallDone(s) /\ call[s].op = "disconnect" /\ ncalls <= 2)
            => ((Attempted(s, "attach_kernel_driver")
                    \/ Attempted(s, "attach_kernel_driver raised"))
                <=> didDetach[s])

\* C8: disconnect() on a session that was never connected, or whose last
\* call was a disconnect(), makes no USB call and changes nothing.
C8_DisconnectIdempotent ==
    [][\A s \in Sessions :
          ( /\ layer[s] \in {"usb", "native"}
            /\ pc[s] = "idle"
            /\ ncalls' = ncalls + 1
            /\ call'[s].op = "disconnect"
            /\ \A t \in Sessions \ {s} : layer[t] = "off"
            /\ connStage[s] = "none" \/ call[s].op = "disconnect" )
          => /\ usbLog'[s] = <<>>
             /\ pc'[s] = "idle"
             /\ device'[s] = device[s] /\ interface'[s] = interface[s]
             /\ kernel_driver_was_active'[s] = kernel_driver_was_active[s]
             /\ connected'[s] = connected[s]
             /\ UNCHANGED envVars]_vars

\* A disconnect() that did nothing, on a session that had been connected
\* and disconnected before.
C8_Witness ==
    \E s \in Sessions :
        /\ CallDone(s) /\ call[s].op = "disconnect" /\ usbLog[s] = <<>>
        /\ connStage[s] = "ok" /\ device[s] = NoDevice /\ ~interface[s]
        /\ s \notin claimed

\* C9: when the reattach fails during disconnect(), disconnect() goes on
\* to dispose the handle, clears device and interface, and returns.
C9_ReattachFailureNotFatal ==
    \A s \in Sessions :
        Attempted(s, "attach_kernel_driver raised") =>
            /\ pc[s] \in {"d_dispose", "idle"}
            /\ pc[s] = "idle" =>
                  /\ usbLog[s][Len(usbLog[s])] = "dispose_resources"
                  /\ device[s] = NoDevice /\ ~interface[s]
                  /\ s \notin claimed

\* A disconnect() whose reattach failed has returned.
C9_Witness ==
    \E s \in Sessions :
        /\ Attempted(s, "attach_kernel_driver raised")
        /\ pc[s] = "idle" /\ call[s].op = "disconnect"
        /\ device[s] = NoDevice

\* C10: on a RogAuraNative session that is not connected, every command
\* returns failure at once and issues no control transfer.
C10_NotConnectedNoTransfer ==
    \A s \in Sessions :
        (layer[s] = "native" /\ IsCommand(s) /\ ~connected[s])
            => /\ pc[s] = "idle" /\ ret[s] = "false"
               /\ sentLog[s] = <<>> /\ usbLog[s] = <<>>

\* A valid command was refused on a session whose last connect() failed at
\* the claim, so that the underlying RogAuraUSB has a device handle.
C10_Witness ==
    \E s \in Sessions :
        /\ layer[s] = "native" /\ IsCommand(s) /\ ~connected[s]
        /\ connStage[s] = "claim" /\ device[s] # NoDevice
        /\ NativePlan(call[s]).valid /\ ret[s] = "false"

\* C11: a connect() made while no allow-listed device is attached (nothing
\* attached, or only a device whose product id is not on the list) returns
\* False after the scan alone; afterwards the session holds no claim, has
\* detached no kernel driver (the binding is what it was initially) and
\* has no device handle.  A backend call with valid arguments makes such
\* a connect() on its temporary session and returns False.
ConnectMade(s) ==
    \/ call[s].op = "connect"
    \/ layer[s] = "backend" /\ BackendPlan(call[s]).valid
C11_NotFoundLeavesNothing ==
    \A s \in Sessions :
        (FindDevice = NoDevice /\ ConnectMade(s) /\ pc[s] = "idle") =>
            /\ ret[s] = "false"
            /\ connStage[s] = "notfound"
            /\ usbLog[s] = <<"find">>
            /\ s \notin claimed
            /\ ~didDetach[s]
            /\ kernelBound = initBound
            /\ device[s] = NoDevice

\* A connect() has returned False with only an unlisted device attached
\* and the kernel driver bound.
C11_Witness ==
    \E s \in Sessions :
        /\ call[s].op = "connect" /\ pc[s] = "idle"
        /\ attached # {} /\ FindDevice = NoDevice /\ kernelBound
        /\ ret[s] = "false" /\ connStage[s] = "notfound"

\* The RogAuraNative / RogAuraUSB command the current call runs.
NativeOp(s) ==
    IF layer[s] = "backend" THEN BackendPlan(call[s]).native.op ELSE call[s].op

\* The session ran its command with a device handle (and, through
\* RogAuraNative, connected).
RanWithDevice(s) ==
    CommandDone(s) /\ device[s] # NoDevice /\ (layer[s] = "usb" \/ connected[s])

OnePacketOp(s) ==
    /\ NativeOp(s) \in {"set_brightness", "initialize_keyboard"}
    /\ PlanOf(s).valid

\* C12: set_brightness with a level in 0..3 and initialize_keyboard build
\* one packet; what they transmit is at every moment a prefix of that
\* one-packet list, so the commit and apply packets are never sent; on a
\* session with a device handle the packet is transmitted exactly once,
\* and the result is True exactly when that transfer was acknowledged.
C12_SinglePacketNoTrailer ==
    \A s \in Sessions :
        OnePacketOp(s) =>
            /\ Len(PlanOf(s).messages) = 1
            /\ IsPrefix(sentLog[s], PlanOf(s).messages)
            /\ MESSAGE_SET \notin Range(sentLog[s])
            /\ MESSAGE_APPLY \notin Range(sentLog[s])
            /\ RanWithDevice(s) =>
                  /\ Len(sentLog[s]) = 1
                  /\ (pc[s] # "idle" \/ layer[s] # "backend") =>
                        ret[s] = (IF failedAt[s] = 0 THEN "true" ELSE "false")

\* A set_brightness whose one transfer failed has returned False.
C12_Witness ==
    \E s \in Sessions :
        /\ NativeOp(s) = "set_brightness" /\ OnePacketOp(s) /\ RanWithDevice(s)
        /\ Len(sentLog[s]) = 1 /\ failedAt[s] = 1 /\ ret[s] = "false"

\* C13: set_brightness with an integer level outside 0..3 returns False at
\* once on every layer: no control transfer and no other USB call is made
\* (the backend does not even connect), so the level is never clamped into
\* the range and sent.
C13_BrightnessOutOfRangeRejected ==
    \A s \in Sessions :
        (call[s].op = "set_brightness" /\ call[s].level \notin 0..3) =>
            /\ pc[s] = "idle"
            /\ ret[s] = "false"
            /\ sentLog[s] = <<>>
            /\ usbLog[s] = <<>>

\* set_brightness(-1) has returned False on a session that holds the claim.
C13_Witness ==
    \E s \in Sessions :
        /\ call[s].op = "set_brightness" /\ call[s].level = -1
        /\ s \in claimed /\ (layer[s] = "usb" \/ connected[s])
        /\ pc[s] = "idle" /\ ret[s] = "false" /\ sentLog[s] = <<>>

\* The strings the interface calls hex colours: one optional leading '#',
\* then exactly six hex digits.
WellFormedHex(h) ==
    LET d == IF Len(h) > 0 /\ h[1] = "#" THEN Tail(h) ELSE h
    IN  Len(d) = 6 /\ \A i \in 1..6 : d[i] \in HexDigits

HexOps == {"apply_custom_color", "single_static", "single_breathing",
           "multi_static", "multi_breathing"}
SpeedOps == {"single_breathing", "single_colorcycle", "multi_breathing",
             "rainbow_cycle"}

\* The arguments of RogAuraNative call `in` are all valid: a known colour
\* name, well-formed hex colours in every position, a speed in 1..3.
ArgsValid(in) ==
    /\ in.op = "apply_color" => in.name \in DOMAIN COLORS
    /\ (in.op \in HexOps /\ ~in.dflt) =>
           \A i \in 1..Len(in.cols) : WellFormedHex(in.cols[i])
    /\ in.op \in SpeedOps => in.speed \in 1..3

\* C14: a RogAuraNative operation taking a colour name, hex colours or a
\* speed that is given an invalid argument (unknown name, a malformed hex
\* colour in any position, a speed outside 1..3) returns False without
\* any control transfer.
C14_InvalidArgumentNoTransfer ==
    \A s \in Sessions :
        ( /\ layer[s] = "native"
          /\ call[s].op \in HexOps \cup SpeedOps \cup {"apply_color"}
          /\ ~ArgsValid(call[s]) )
            => (pc[s] = "idle" /\ ret[s] = "false" /\ sentLog[s] = <<>>)

\* A backend call that passes a speed to a speed-taking effect (speed 0
\* stands for the omitted argument of apply_multi_zone_effect).
TakesSpeed(in) ==
    \/ /\ in.op = "apply_speed_effect"
       /\ in.name \in {"single_breathing", "single_colorcycle", "rainbow_cycle"}
    \/ /\ in.op = "apply_multi_zone_effect"
       /\ in.name = "multi_breathing" /\ in.speed # 0

\* C15: a backend speed-taking operation given a speed outside 1..3 makes
\* no control transfer and returns False.
C15_BackendSpeedOutOfRangeFails ==
    \A s \in Sessions :
        ( /\ layer[s] = "backend"
          /\ TakesSpeed(call[s])
          /\ call[s].speed \notin 1..3 )
            => (sentLog[s] = <<>> /\ (pc[s] = "idle" => ret[s] = "false"))

\* The current call of s runs a command method whose arguments pass the
\* backend's own validation.
RunsCommand(s) ==
    IsCommand(s) /\ (layer[s] = "backend" => BackendPlan(call[s]).valid)

\* Number of occurrences of a USB library call in the log of the call.
Count(s, name) == Cardinality({i \in DOMAIN usbLog[s] : usbLog[s][i] = name})

\* C16: nothing is retried.  The transfers of an operation are at every
\* moment a prefix of its payload list followed, for an effect, by commit
\* and apply, so each packet goes out at most once and at most n + 2
\* transfers (n without the trailer) are made; nothing is sent after the
\* first failed transfer; an operation that builds no list sends nothing;
\* and one call makes at most one device scan and one claim attempt.
C16_NoRetry ==
    \A s \in Sessions :
        /\ ~RunsCommand(s) => sentLog[s] = <<>>
        /\ RunsCommand(s) =>
              LET plan == PlanOf(s)
                  trailer == IF plan.set_and_apply
                             THEN <<MESSAGE_SET, MESSAGE_APPLY>> ELSE <<>>
              IN  /\ ~plan.valid => sentLog[s] = <<>>
                  /\ plan.valid =>
                        /\ IsPrefix(sentLog[s], plan.messages \o trailer)
                        /\ Len(sentLog[s]) <= Len(plan.messages) + Len(trailer)
        /\ failedAt[s] # 0 => Len(sentLog[s]) = failedAt[s]
        /\ Count(s, "find") <= 1
        /\ Count(s, "claim_interface") <= 1

\* A four-packet effect whose second payload transfer failed has returned
\* False with exactly two transfers made.
C16_Witness ==
    \E s \in Sessions :
        /\ RunsCommand(s) /\ CommandDone(s) /\ PlanOf(s).valid
        /\ Len(PlanOf(s).messages) = 4
        /\ failedAt[s] = 2 /\ Len(sentLog[s]) = 2 /\ ret[s] = "false"

Last(q) == q[Len(q)]

\* C17: a packet send succeeds exactly when ctrl_transfer reports 17
\* bytes.  A send that was followed by another send reported 17; after a
\* transfer that reported 17 the operation goes on (or has returned True
\* when that was its last packet); after a short count, a USB error or a
\* timeout the operation has returned False, as a value.
C17_SendSucceedsIffSeventeen ==
    \A s \in Sessions :
        /\ Len(xferLog[s]) = Len(sentLog[s])
        /\ \A i \in 1..Len(xferLog[s]) :
              /\ Len(sentLog[s][i]) = MESSAGE_LENGTH
              /\ i < Len(xferLog[s]) => xferLog[s][i] = MESSAGE_LENGTH
        /\ Len(xferLog[s]) > 0 =>
              IF Last(xferLog[s]) = MESSAGE_LENGTH
              THEN /\ failedAt[s] = 0
                   /\ pc[s] \in SendPcs \/ ret[s] = "true"
              ELSE /\ failedAt[s] = Len(xferLog[s])
                   /\ pc[s] \notin SendPcs
                   /\ ret[s] = "false"

\* An operation has returned False on the timeout of its second transfer,
\* the first having reported 17 bytes.
C17_Witness ==
    \E s \in Sessions :
        /\ CommandDone(s) /\ ret[s] = "false"
        /\ xferLog[s] = <<MESSAGE_LENGTH, -2>>

\* The effect of s has had its first payload packet transmitted and is
\* still to send its remaining packets, commit or apply.
MidEffect(s) == set_and_apply[s] /\ Len(sentLog[s]) >= 1 /\ pc[s] \in SendPcs

SuppliedColors(s) ==
    IF layer[s] = "usb"
    THEN [i \in 1..Len(call[s].cols) |-> ColorOf(call[s].cols[i])]
    ELSE LET in == IF layer[s] = "backend" THEN BackendPlan(call[s]).native
                   ELSE call[s]
         IN  HexColors(IF in.dflt THEN DefaultHexColors ELSE in.cols)

\* C19: multi_static and multi_breathing hand _send_messages exactly four
\* packets, with zone bytes 1, 2, 3, 4 in that order, whatever the length
\* of the colour list: packet i carries the i-th supplied colour when the
\* list has one and white otherwise, and colours after the fourth appear
\* in no packet.
C19_FourZonesPadTruncate ==
    \A s \in Sessions :
        ( /\ RunsCommand(s)
          /\ NativeOp(s) \in {"multi_static", "multi_breathing"}
          /\ PlanOf(s).valid
          /\ pc[s] \in SendPcs \/ Len(sentLog[s]) > 0 )
            => LET colors == SuppliedColors(s)
               IN  /\ Len(messages[s]) = 4
                   /\ \A i \in 1..Len(messages[s]) :
                         LET msg == messages[s][i]
                             want == IF i <= Len(colors) THEN colors[i]
                                     ELSE [red |-> 255, green |-> 255, blue |-> 255]
                         IN  /\ msg[3] = i
                             /\ <<msg[5], msg[6], msg[7]>> =
                                    <<want.red, want.green, want.blue>>

\* multi_breathing given one colour has sent its four packets, the last
\* three white, then commit and apply.
C19_Witness ==
    \E s \in Sessions :
        /\ layer[s] = "usb" /\ call[s].op = "multi_breathing"
        /\ Len(call[s].cols) = 1
        /\ Len(sentLog[s]) = 6 /\ ret[s] = "true"
        /\ sentLog[s][2][3] = 2
        /\ <<sentLog[s][2][5], sentLog[s][2][6], sentLog[s][2][7]>> = <<255, 255, 255>>

\* The six packets of the rainbow effect, byte by byte.
RainbowWire ==
    << <<93, 179, 1, 0, 255, 0, 0, 235, 0, 0, 0, 0, 0, 0, 0, 0, 0>>,
       <<93, 179, 2, 0, 255, 255, 0, 235, 0, 0, 0, 0, 0, 0, 0, 0, 0>>,
       <<93, 179, 3, 0, 0, 255, 255, 235, 0, 0, 0, 0, 0, 0, 0, 0, 0>>,
       <<93, 179, 4, 0, 255, 0, 255, 235, 0, 0, 0, 0, 0, 0, 0, 0, 0>>,
       <<93, 181, 0, 0, 0, 0, 0, 0, 0, 0, 0, 0, 0, 0, 0, 0, 0>>,
       <<93, 180, 0, 0, 0, 0, 0, 0, 0, 0, 0, 0, 0, 0, 0, 0, 0>> >>

\* C20: rainbow() transmits, in this order, the four multi-static packets
\* of zones 1..4 with red, yellow, cyan and magenta, then one commit and
\* one apply: what it has sent is always a prefix of these six packets,
\* and on a session with a device handle where every transfer was
\* acknowledged it has sent all six and returned True.
C20_RainbowSixTransfers ==
    \A s \in Sessions :
        (RunsCommand(s) /\ NativeOp(s) = "rainbow") =>
            /\ IsPrefix(sentLog[s], RainbowWire)
            /\ ( /\ CommandDone(s) /\ failedAt[s] = 0
                 /\ RanWithDevice(s) \/ sentLog[s] # <<>> )
                  => (sentLog[s] = RainbowWire /\ ret[s] = "true")

\* rainbow() has returned True after six acknowledged transfers.
C20_Witness ==
    \E s \in Sessions :
        /\ RunsCommand(s) /\ NativeOp(s) = "rainbow" /\ CommandDone(s)
        /\ Len(sentLog[s]) = 6 /\ failedAt[s] = 0 /\ ret[s] = "true"
        /\ xferLog[s] = [i \in 1..6 |-> MESSAGE_LENGTH]

\* ---------------------------------------------------------------- C21
\* C21 (as stated; refuted): Color.from_hex raises ValueError for every
\* string that is not one optional leading '#' followed by exactly six
\* characters of [0-9A-Fa-f].
C21_FromHexRejectsMalformed ==
    \A s \in Sessions :
        (call[s].op = "from_hex" /\ ~WellFormedHex(call[s].cols[1]))
            => ret[s] = "false"

\* ---------------------------------------------------------------- C22
\* The value of the two-digit group of d that starts at position i.
GroupValue(d, i) == 16 * HexDigitValue(d[i]) + HexDigitValue(d[i + 1])

\* The same hex colour written the other way: with the leading '#' when
\* h has none, without it when h has one.
OtherSpelling(h) == IF h[1] = "#" THEN Tail(h) ELSE <<"#">> \o h

\* C22: for every string of exactly six hex digits, with or without one
\* leading '#', Color.from_hex succeeds, red, green and blue are the values
\* of the first, second and third two-digit groups, and the spelling with
\* and without the '#' gives the same Color.
C22_FromHexRoundTrip ==
    \A s \in Sessions :
        (call[s].op = "from_hex" /\ WellFormedHex(call[s].cols[1])) =>
            LET h == call[s].cols[1]
                d == IF h[1] = "#" THEN Tail(h) ELSE h
                o == from_hex(OtherSpelling(h))
            IN  /\ ret[s] = "true"
                /\ result[s] = <<GroupValue(d, 1), GroupValue(d, 3), GroupValue(d, 5)>>
                /\ o.ok
                /\ result[s] = <<o.color.red, o.color.green, o.color.blue>>

\* from_hex("#fF1Aa9") has returned Color(255, 26, 169).
C22_Witness ==
    \E s \in Sessions :
        /\ call[s].op = "from_hex"
        /\ call[s].cols[1] = <<"#", "f", "F", "1", "A", "a", "9">>
        /\ ret[s] = "true"
        /\ result[s] = <<255, 26, 169>>

\* ---------------------------------------------------------------- C23
\* C23: Speed(n) succeeds exactly for n = 1, 2, 3 and its protocol byte is
\* 0xE1, 0xEB, 0xF5 respectively; every other integer is a ValueError and
\* no Speed has any other byte.
C23_SpeedBytes ==
    \A s \in Sessions :
        call[s].op = "Speed" =>
            /\ ret[s] = "true" <=> call[s].speed \in {1, 2, 3}
            /\ ret[s] \in {"true", "false"}
            /\ ret[s] = "true" =>
                   result[s] = <<CASE call[s].speed = 1 -> 225
                                   [] call[s].speed = 2 -> 235
                                   [] call[s].speed = 3 -> 245>>
            /\ ret[s] = "false" => result[s] = <<>>

\* Speed(3) has been built, with byte 0xF5.
C23_Witness ==
    \E s \in Sessions :
        /\ call[s].op = "Speed" /\ call[s].speed = 3
        /\ ret[s] = "true" /\ result[s] = <<245>>

\* ---------------------------------------------------------------- C24
\* The RogAuraNative / RogAuraUSB call the current call of s runs.
NativeIn(s) == IF layer[s] = "backend" THEN BackendPlan(call[s]).native ELSE call[s]

\* The Color objects the single-zone method is given: built by the caller
\* on the RogAuraUSB layer, parsed from the hex arguments elsewhere and in
\* apply_custom_color.
EffectColors(s) ==
    IF layer[s] = "usb" /\ call[s].op # "apply_custom_color"
    THEN [i \in 1..Len(call[s].cols) |-> ColorOf(call[s].cols[i])]
    ELSE HexColors(NativeIn(s).cols)

\* The encoding table of the interface, written out byte by byte.
SpeedByte(n) == CASE n = 1 -> 225 [] n = 2 -> 235 [] n = 3 -> 245

StaticRow(c) ==
    <<93, 179, 0, 0, c.red, c.green, c.blue, 0, 0, 0, 0, 0, 0, 0, 0, 0, 0>>

BreathingRow(c1, c2, n) ==
    <<93, 179, 0, 1, c1.red, c1.green, c1.blue, SpeedByte(n), 0,
      1, c2.red, c2.green, c2.blue, 0, 0, 0, 0>>

CycleRow(mode, n) ==
    <<93, 179, 0, mode, 255, 0, 0, SpeedByte(n), 0, 0, 0, 0, 0, 0, 0, 0, 0>>

SingleZoneOps == {"single_static", "apply_custom_color", "single_breathing",
                  "single_colorcycle", "rainbow_cycle"}

SingleZoneRow(s) ==
    LET op == NativeOp(s)
        c == EffectColors(s)
        n == NativeIn(s).speed
    IN  CASE op \in {"single_static", "apply_custom_color"} -> StaticRow(c[1])
          [] op = "single_breathing" -> BreathingRow(c[1], c[2], n)
          [] op = "single_colorcycle" -> CycleRow(2, n)
          [] op = "rainbow_cycle" -> CycleRow(3, n)

\* C24: the packet a single-zone effect builds, and the payload packet it
\* transmits, is the 17-byte row of the encoding table for its colours and
\* speed: bytes 0, 1 are 0x5D, 0xB3; static has [4..6] = R, G, B; breathing
\* has [3] = 1, [4..6] = colour 1, [7] = speed byte, [9] = 1, [10..12] =
\* colour 2; colour-cycle has [3] = 2, [4] = 0xFF, [7] = speed byte;
\* rainbow-cycle has [3] = 3, [4] = 0xFF, [7] = speed byte; every other
\* byte is zero.
C24_SingleZoneEncoding ==
    \A s \in Sessions :
        ( /\ RunsCommand(s)
          /\ NativeOp(s) \in SingleZoneOps
          /\ PlanOf(s).valid
          /\ pc[s] \in SendPcs \/ Len(sentLog[s]) > 0 )
            => /\ messages[s] = <<SingleZoneRow(s)>>
               /\ Len(messages[s][1]) = MESSAGE_LENGTH
               /\ Len(sentLog[s]) > 0 => sentLog[s][1] = SingleZoneRow(s)

\* single_breathing(Color(255, 0, 0), Color(0, 0, 300), Speed(1)) on a
\* RogAuraUSB session has transmitted its packet, commit and apply.
C24_Witness ==
    \E s \in Sessions :
        /\ layer[s] = "usb" /\ call[s].op = "single_breathing" /\ call[s].speed = 1
        /\ pc[s] = "idle" /\ ret[s] = "true"
        /\ sentLog[s] = << <<93, 179, 0, 1, 255, 0, 0, 225, 0, 1, 0, 0, 255, 0, 0, 0, 0>>,
                           MESSAGE_SET, MESSAGE_APPLY >>

\* ---------------------------------------------------------------- C25
\* The multi-zone rows of the encoding table for zone i.
MultiStaticRow(i, c) ==
    <<93, 179, i, 0, c.red, c.green, c.blue, 235, 0, 0, 0, 0, 0, 0, 0, 0, 0>>

MultiBreathingRow(i, c, n) ==
    <<93, 179, i, 1, c.red, c.green, c.blue, SpeedByte(n), 0, 0, 0, 0, 0, 0, 0, 0, 0>>

\* The colour of zone i: the i-th supplied colour, white past the list.
ZoneColor(s, i) ==
    LET colors == SuppliedColors(s)
    IN  IF i <= Len(colors) THEN colors[i]
        ELSE [red |-> 255, green |-> 255, blue |-> 255]

MultiZoneRow(s, i) ==
    IF NativeOp(s) = "multi_static" THEN MultiStaticRow(i, ZoneColor(s, i))
    ELSE MultiBreathingRow(i, ZoneColor(s, i), NativeIn(s).speed)

\* C25: the payload packets of multi_static and multi_breathing are the
\* rows of the encoding table for zones 1..4: a multi-static packet has
\* [2] = zone, [3] = 0, [4..6] = R, G, B and [7] = 0xEB whatever speed the
\* caller gave; a multi-breathing packet has [2] = zone, [3] = 1, [4..6] =
\* R, G, B and [7] = the byte of the supplied speed; bytes 0, 1 are 0x5D,
\* 0xB3 and every other byte is zero.
C25_MultiZoneEncoding ==
    \A s \in Sessions :
        ( /\ RunsCommand(s)
          /\ NativeOp(s) \in {"multi_static", "multi_breathing"}
          /\ PlanOf(s).valid
          /\ pc[s] \in SendPcs \/ Len(sentLog[s]) > 0 )
            => /\ messages[s] = [i \in 1..4 |-> MultiZoneRow(s, i)]
               /\ \A k \in 1..Len(sentLog[s]) :
                     k <= 4 => sentLog[s][k] = MultiZoneRow(s, k)

\* multi_breathing of four colours at Speed(1) on a RogAuraUSB session has
\* transmitted its four zone packets, commit and apply.
C25_Witness ==
    \E s \in Sessions :
        /\ layer[s] = "usb" /\ call[s].op = "multi_breathing" /\ call[s].speed = 1
        /\ pc[s] = "idle" /\ ret[s] = "true"
        /\ sentLog[s] =
             << <<93, 179, 1, 1, 1, 10, 251, 225, 0, 0, 0, 0, 0, 0, 0, 0, 0>>,
                <<93, 179, 2, 1, 2, 20, 252, 225, 0, 0, 0, 0, 0, 0, 0, 0, 0>>,
                <<93, 179, 3, 1, 3, 30, 253, 225, 0, 0, 0, 0, 0, 0, 0, 0, 0>>,
                <<93, 179, 4, 1, 4, 40, 254, 225, 0, 0, 0, 0, 0, 0, 0, 0, 0>>,
                MESSAGE_SET, MESSAGE_APPLY >>

\* ---------------------------------------------------------------- C26
\* C26 (as stated; refuted): when a backend operation that ran through
\* _execute_with_connection has returned, its temporary session holds no
\* interface claim and the kernel driver it detached is bound again.
C26_TemporarySessionTornDown ==
    \A s \in Sessions :
        ( /\ layer[s] = "backend"
          /\ pc[s] = "idle"
          /\ call[s].op # "none"
          /\ BackendPlan(call[s]).valid )
            => /\ s \notin claimed
               /\ didDetach[s] => kernelBound

\* ---------------------------------------------------------------- C27
\* The other session is the long-lived session of the same backend object,
\* so no other process exists.
OwnBackend(s) == layer[s] = "backend" /\ \A t \in Sessions \ {s} : layer[t] = "aura"

AllAcked(s) == \A i \in DOMAIN xferLog[s] : xferLog[s][i] = MESSAGE_LENGTH

\* C27 (as stated; refuted): a backend operation with valid arguments
\* returns True whenever a supported keyboard is attached, no other
\* process holds the claim, no USB call fails though the host could serve
\* it and every transfer is acknowledged, whatever backend calls preceded
\* it, connect() and test_connection() included.
C27_BackendOperationSucceeds ==
    \A s \in Sessions :
        ( /\ OwnBackend(s)
          /\ pc[s] = "idle" /\ call[s].op # "none"
          /\ BackendPlan(call[s]).valid /\ PlanOf(s).valid
          /\ FindDevice # NoDevice
          /\ ~fault
          /\ AllAcked(s) )
            => ret[s] = "true"

\* ---------------------------------------------------------------- C28
\* The session has finished a disconnect: the disconnect() it called has
\* returned, or its backend call, which ends with the disconnect of the
\* temporary session, has.
DisconnectFinished(s) ==
    /\ pc[s] = "idle"
    /\ IF layer[s] = "backend" THEN call[s].op # "none" /\ BackendPlan(call[s]).valid
       ELSE call[s].op \in {"disconnect", "backend_disconnect"}

\* C28 (as stated; refuted): whatever the interleaving of the USB calls of
\* two sessions, once both have finished their disconnect, and no USB call
\* failed that the host could have served, the kernel driver is bound
\* again if it was bound initially.
C28_DriverBoundAfterBothDisconnect ==
    ( /\ initBound
      /\ ~fault
      /\ \A s \in Sessions : DisconnectFinished(s) )
        => kernelBound

\* ---------------------------------------------------------------- C29
\* C29 (as stated; refuted): between the calls of a RogAuraNative session,
\* connected is true exactly when the underlying RogAuraUSB holds the
\* interface claim, and while connected is false the session holds no
\* claim and has left no kernel driver detached.
C29_ConnectedIffClaimHeld ==
    \A s \in Sessions :
        (layer[s] = "native" /\ pc[s] = "idle") =>
            /\ connected[s] <=> s \in claimed
            /\ ~connected[s] => (didDetach[s] => kernelBound)

\* ---------------------------------------------------------------- C30
\* C30 (as stated; refuted): a session driven through the RogAuraUSB
\* methods hands a packet to ctrl_transfer only while it holds the
\* interface claim; a send step taken without the claim ends the command
\* with False.
C30_NoTransferWithoutClaim ==
    [][\A s \in Sessions :
          (layer[s] = "usb" /\ pc[s] \in SendPcs /\ pc'[s] # pc[s] /\ s \notin claimed)
              => /\ sentLog'[s] = sentLog[s]
                 /\ pc'[s] = "idle" /\ ret'[s] = "false"]_vars

\* ---------------------------------------------------------------- C31
\* C31: the shared packet templates (commit, apply, brightness,
\* initialize) hold in every reachable state the bytes the class body gave
\* them, so that after any history of calls set_brightness(b) transmits
\* exactly 5A BA C5 C4 b followed by twelve zero bytes and
\* initialize_keyboard transmits the 17-byte handshake.
C31_TemplatesNeverMutated ==
    /\ templates.set = <<93, 181, 0, 0, 0, 0, 0, 0, 0, 0, 0, 0, 0, 0, 0, 0, 0>>
    /\ templates.apply = <<93, 180, 0, 0, 0, 0, 0, 0, 0, 0, 0, 0, 0, 0, 0, 0, 0>>
    /\ templates.brightness = <<90, 186, 197, 196, 0, 0, 0, 0, 0, 0, 0, 0, 0, 0, 0, 0, 0>>
    /\ templates.initialize =
           <<90, 65, 83, 85, 83, 32, 84, 101, 99, 104, 46, 73, 110, 99, 46, 0, 0>>
    /\ \A s \in Sessions :
          (RunsCommand(s) /\ Len(sentLog[s]) > 0) =>
              /\ NativeOp(s) = "set_brightness" =>
                    sentLog[s] = << <<90, 186, 197, 196, NativeIn(s).level,
                                      0, 0, 0, 0, 0, 0, 0, 0, 0, 0, 0, 0>> >>
              /\ NativeOp(s) = "initialize_keyboard" =>
                    sentLog[s] = << <<90, 65, 83, 85, 83, 32, 84, 101, 99, 104, 46,
                                      73, 110, 99, 46, 0, 0>> >>

\* A set_brightness(0) that is at least the third call of the behaviour
\* has transmitted its packet, byte 4 equal to 0, and returned True.
C31_Witness ==
    \E s \in Sessions :
        /\ call[s].op = "set_brightness" /\ call[s].level = 0
        /\ ncalls >= 3 /\ pc[s] = "idle" /\ ret[s] = "true"
        /\ sentLog[s] = << <<90, 186, 197, 196, 0, 0, 0, 0, 0, 0, 0, 0, 0, 0, 0, 0, 0>> >>

====
